---- MODULE Spec2Model ----
(***************************************************************************)
(* A model of the three batch scripts of auto_pdf_reader:                  *)
(*   PDF_batch_read.py    the summarizer (PDF -> text -> LLM -> .md)       *)
(*   PDF_batch_rename.py  the renamer (title extraction, sanitization,     *)
(*                        collision-free rename)                           *)
(*   MD_summarize.py      the aggregator (.md files -> one report)         *)
(* The scripts do not interact; each has its own specification over the    *)
(* shared variables, and the variables of the other scripts stay idle.     *)
(*                                                                         *)
(* Environment assumptions: print() and the tqdm progress bar never raise. *)
(* Under them the handler of process_folder (PDF_batch_rename.py 113-116)  *)
(* cannot be entered, since every call inside its try block catches        *)
(* Exception itself; it is therefore not an action of the model.           *)
(***************************************************************************)
EXTENDS Integers, Sequences, FiniteSets, TLC

VARIABLES
    script,        \* which script this run executes
    pc,            \* the position of the running script
    rootExists,    \* whether the configured root directory exists
    api_key,       \* the configured API key
    \* ---- both batch runners
    pdf_files,     \* the scan result, in traversal order
    pos,           \* number of files of pdf_files the loop has finished
    stats,         \* the outcome counters of the current run
    runs,          \* number of batch runs started so far
    \* ---- summarizer
    md,            \* the derived .md files on disk: path -> content
    last,          \* what the latest process_single_file call did
    failedEarlier, \* per PDF, the latest run in which it returned "failed" (0: none)
    \* ---- renamer
    dir,           \* the PDF files on disk: a set of <<directory, name>>
    lastRen,       \* what the latest rename_pdf_file call did
    \* ---- aggregator
    mdDir,         \* the .md files of MARKDOWN_DIRECTORY (filenames)
    md_files,      \* what read_markdown_files returned
    agg,           \* the aggregator's run record (prompt, reply, report, ...)
    \* ---- pure functions under test
    title,         \* sanitize_filename: input and the two results
    doc            \* extract_pdf_title: the document and the result

vars == <<script, pc, rootExists, api_key, pdf_files, pos, stats, runs,
          md, last, failedEarlier, dir, lastRen, mdDir, md_files, agg,
          title, doc>>

configVars == <<rootExists, api_key>>
batchVars  == <<pdf_files, pos, stats, runs>>
readVars   == <<md, last, failedEarlier>>
renVars    == <<dir, lastRen>>
aggVars    == <<mdDir, md_files, agg>>
pureVars   == <<title, doc>>

Idle == "idle"

\* The idle values of each group of variables.
IdleConfig == rootExists = TRUE /\ api_key = Idle
IdleBatch  == pdf_files = <<>> /\ pos = 0 /\ stats = Idle /\ runs = 0
IdleRead   == md = Idle /\ last = Idle /\ failedEarlier = Idle
IdleRen    == dir = {} /\ lastRen = Idle
IdleAgg    == mdDir = {} /\ md_files = <<>> /\ agg = Idle
IdlePure   == title = Idle /\ doc = Idle

Min(a, b) == IF a < b THEN a ELSE b

(***************************************************************************)
(* sanitize_filename (PDF_batch_rename.py 8-14).                           *)
(* A string is a sequence of characters.  The characters of the model:     *)
(*   "a"    a letter                 (\w)                                  *)
(*   "-"    the hyphen               (kept by the character class)         *)
(*   "_"    the underscore           (\w)                                  *)
(*   "sp"   a space                  (outside the class)                   *)
(*   "FW_"  U+FF3F fullwidth low line, which NFKC maps to "_"              *)
(*   "CJK"  an ideograph of U+4E00..U+9FA5                                 *)
(*   "0".."9"  the decimal digits  (\w)                                    *)
(***************************************************************************)
Chars == {"a", "-", "_", "sp", "FW_", "CJK"}

\* unicodedata.normalize('NFKC', .) on one character
NFKCChar(c) == IF c = "FW_" THEN "_" ELSE c

NFKC(s) == [i \in 1..Len(s) |-> NFKCChar(s[i])]

\* the character class [\w一-龥-] of line 12
Allowed(c) == c \in {"a", "_", "CJK", "-"} \cup {"0", "1", "2", "3", "4", "5", "6", "7", "8", "9"}

\* re.sub(r'[^\w一-龥-]', '_', cleaned)
ReplaceIllegal(s) == [i \in 1..Len(s) |-> IF Allowed(s[i]) THEN s[i] ELSE "_"]

\* re.sub(r'_+', '_', cleaned): of every run of underscores the first is kept.
\* Each character is paired with the one before it, the underscores that
\* follow an underscore are dropped, and the characters are taken back.
WithPrevious(s) ==
    [i \in 1..Len(s) |-> <<s[i], IF i > 1 THEN s[i - 1] ELSE "">>]

StartsRun(p) == ~(p[1] = "_" /\ p[2] = "_")

CollapseUnderscores(s) ==
    LET kept == SelectSeq(WithPrevious(s), StartsRun)
    IN  [k \in 1..Len(kept) |-> kept[k][1]]

\* str.strip('_')
RECURSIVE LStrip(_)
LStrip(s) == IF s # <<>> /\ s[1] = "_" THEN LStrip(Tail(s)) ELSE s

RECURSIVE RStrip(_)
RStrip(s) ==
    IF s # <<>> /\ s[Len(s)] = "_" THEN RStrip(SubSeq(s, 1, Len(s) - 1)) ELSE s

Strip(s) == RStrip(LStrip(s))

\* the length limit of line 14
TitleLimit == 200

Truncate(s) == SubSeq(s, 1, Min(Len(s), TitleLimit))

sanitize_filename(t) ==
    Truncate(Strip(CollapseUnderscores(ReplaceIllegal(NFKC(t)))))

\* ---- the inputs of the sanitization runs: a run of letters, long enough to
\* ---- reach the length limit, followed by a short arbitrary tail
MaxTail == 3

RECURSIVE SeqsUpTo(_, _)
SeqsUpTo(S, n) ==
    IF n = 0 THEN {<<>>}
    ELSE LET shorter == SeqsUpTo(S, n - 1)
         IN  shorter \cup {Append(s, c) : s \in shorter, c \in S}

Letters(n) == [i \in 1..n |-> "a"]

PadLengths == {0} \cup ((TitleLimit - MaxTail)..TitleLimit)

Titles == {Letters(n) \o t : n \in PadLengths, t \in SeqsUpTo(Chars, MaxTail)}

InitSanitize ==
    /\ script = "sanitize" /\ pc = "input"
    /\ title \in {[in |-> t, once |-> <<>>, twice |-> <<>>] : t \in Titles}
    /\ doc = Idle
    /\ IdleConfig /\ IdleBatch /\ IdleRead /\ IdleRen /\ IdleAgg

\* sanitize_filename applied to the raw title
SanitizeOnce ==
    /\ script = "sanitize" /\ pc = "input"
    /\ title' = [title EXCEPT !.once = sanitize_filename(title.in)]
    /\ pc' = "once"
    /\ UNCHANGED <<script, doc, configVars, batchVars, readVars, renVars, aggVars>>

\* sanitize_filename applied to its own result
SanitizeAgain ==
    /\ script = "sanitize" /\ pc = "once"
    /\ title' = [title EXCEPT !.twice = sanitize_filename(title.once)]
    /\ pc' = "twice"
    /\ UNCHANGED <<script, doc, configVars, batchVars, readVars, renVars, aggVars>>

NextSanitize == SanitizeOnce \/ SanitizeAgain

SpecSanitize == InitSanitize /\ [][NextSanitize]_vars

\* C4: sanitizing an already sanitized title gives the same title, for every
\* input, truncated ones included.
C4_SanitizeIdempotent ==
    (script = "sanitize" /\ pc = "twice") => title.twice = title.once

(***************************************************************************)
(* extract_pdf_title (PDF_batch_rename.py 17-56).                          *)
(* A document is Unreadable (fitz.open raises) or a sequence of pages; a   *)
(* page is what the parser returns for it: its stripped non-empty text     *)
(* lines and its text spans.  A line carries what the code tests of it:    *)
(* its length, whether it is all digits, whether it matches the            *)
(* header/footer pattern.  A text is a tuple, and None the empty tuple.    *)
(***************************************************************************)
None == <<>>

\* a document fitz.open cannot read
Unreadable == [readable |-> FALSE, pages |-> <<>>]

Readable(pp) == [readable |-> TRUE, pages |-> pp]

\* range(min(2, len(doc))) of line 27
PagesScanned == 2

\* lines[:10] of line 33
LinesChecked == 10

\* 10 <= len(line) <= 200 of line 34
MinTitleLen == 10

MaxTitleLen == 200

\* largest[1] > 11 of line 50
BodyFontSize == 11

\* the test of lines 34-37 on one line
Qualifies(ln) ==
    /\ MinTitleLen <= ln.len /\ ln.len <= MaxTitleLen
    /\ ~ln.isdigit
    /\ ~ln.marker

\* the loop of lines 33-38: the first of the first ten lines that qualifies
FirstQualifying(lines) ==
    LET checked == SubSeq(lines, 1, Min(Len(lines), LinesChecked))
        hits    == {i \in 1..Len(checked) : Qualifies(checked[i])}
    IN  IF hits = {} THEN None
        ELSE checked[CHOOSE i \in hits : \A j \in hits : i <= j].text

\* max(font_sizes, key=lambda x: x[1]) of line 49: the first span of the
\* largest size
Largest(spans) ==
    spans[CHOOSE i \in 1..Len(spans) :
            /\ \A j \in 1..Len(spans) : spans[j].size <= spans[i].size
            /\ \A j \in 1..(i - 1) : spans[j].size < spans[i].size]

\* lines 41-51: the text of the largest span, if larger than body text
LargestSpanTitle(spans) ==
    IF spans # <<>> /\ Largest(spans).size > BodyFontSize
    THEN Largest(spans).text
    ELSE None

\* one iteration of the loop of line 27: the page's lines, then its spans
PageTitle(page) ==
    IF FirstQualifying(page.lines) # None
    THEN FirstQualifying(page.lines)
    ELSE LargestSpanTitle(page.spans)

\* the loop of line 27 from page p on: the first page that yields a title
RECURSIVE TitleFrom(_, _)
TitleFrom(pages, p) ==
    IF p > Min(PagesScanned, Len(pages)) THEN None
    ELSE IF PageTitle(pages[p]) # None THEN PageTitle(pages[p])
    ELSE TitleFrom(pages, p + 1)

extract_pdf_title(pdf) ==
    IF ~pdf.readable THEN None ELSE TitleFrom(pdf.pages, 1)

\* ---- the documents of the title-extraction runs.  A text is a string as in
\* ---- sanitize_filename; marker says whether re.search (line 36) matches it.
Digits == {"0", "1", "2", "3", "4", "5", "6", "7", "8", "9"}

\* str.isdigit()
IsDigit(t) == t # <<>> /\ \A i \in 1..Len(t) : t[i] \in Digits

Line(t, mark) == [text |-> t, len |-> Len(t), isdigit |-> IsDigit(t), marker |-> mark]

\* the decimal digit d as a character
DigitChar(d) == ToString(d)

\* texts that begin with the page number, so that no two pages share a text
Text(p, n) == <<DigitChar(p)>> \o Letters(n - 1)

OkLine(p)     == Line(Text(p, MinTitleLen), FALSE)
OkLongLine(p) == Line(Text(p, MaxTitleLen), FALSE)
ShortLine(p)  == Line(Text(p, MinTitleLen - 1), FALSE)
LongLine(p)   == Line(Text(p, MaxTitleLen + 1), FALSE)
DigitLine(p)  == Line([i \in 1..(MinTitleLen + 2) |-> DigitChar(p)], FALSE)
MarkerLine(p) == Line(Text(p, MinTitleLen + 2), TRUE)

Filler(p, n) == [i \in 1..n |-> ShortLine(p)]

LineLists(p) ==
    { <<>>, <<OkLine(p)>>, <<OkLongLine(p)>>, <<ShortLine(p)>>, <<LongLine(p)>>,
      <<DigitLine(p)>>, <<MarkerLine(p), OkLine(p)>>,
      Filler(p, LinesChecked - 1) \o <<OkLine(p)>>,
      Filler(p, LinesChecked) \o <<OkLine(p)>> }

Span(p, k, sz) == [text |-> <<DigitChar(p), "-", DigitChar(k)>>, size |-> sz]

SpanLists(p) ==
    { <<>>, <<Span(p, 1, BodyFontSize - 1)>>, <<Span(p, 1, BodyFontSize)>>,
      <<Span(p, 1, BodyFontSize + 1)>>,
      <<Span(p, 1, BodyFontSize), Span(p, 2, BodyFontSize + 3),
        Span(p, 3, BodyFontSize + 3)>> }

Pages(p) == {[lines |-> l, spans |-> sp] : l \in LineLists(p), sp \in SpanLists(p)}

TwoPages == {<<p1, p2>> : p1 \in Pages(1), p2 \in Pages(2)}

\* a third page that would yield a title, were it scanned
ThirdPage == [lines |-> <<OkLine(3)>>, spans |-> <<Span(3, 1, BodyFontSize + 9)>>]

Docs ==
    {Unreadable, Readable(<<>>)} \cup {Readable(<<p1>>) : p1 \in Pages(1)}
        \cup {Readable(d) : d \in TwoPages}
        \cup {Readable(d \o <<ThirdPage>>) : d \in TwoPages}

InitTitle ==
    /\ script = "title" /\ pc = "input"
    /\ doc \in {[pdf |-> d, title |-> None] : d \in Docs}
    /\ title = Idle
    /\ IdleConfig /\ IdleBatch /\ IdleRead /\ IdleRen /\ IdleAgg

\* extract_pdf_title applied to the document
ExtractTitle ==
    /\ script = "title" /\ pc = "input"
    /\ doc' = [doc EXCEPT !.title = extract_pdf_title(doc.pdf)]
    /\ pc' = "extracted"
    /\ UNCHANGED <<script, title, configVars, batchVars, readVars, renVars, aggVars>>

NextTitle == ExtractTitle

SpecTitle == InitTitle /\ [][NextTitle]_vars

\* the pages of the first two whose lines hold a qualifying line
PagesWithLine(pdf) ==
    {p \in 1..Min(PagesScanned, Len(pdf.pages)) :
        FirstQualifying(pdf.pages[p].lines) # None}

\* C9: heuristic (a) runs over the lines of the first two pages before the
\* largest-span fallback (c) is tried: when one of the first two pages holds a
\* qualifying line, the title is the qualifying line of the first such page.
C9_LinesOfBothPagesFirst ==
    (script = "title" /\ pc = "extracted" /\ PagesWithLine(doc.pdf) # {})
    => doc.title =
         FirstQualifying(
           doc.pdf.pages[CHOOSE p \in PagesWithLine(doc.pdf) :
                     \A q \in PagesWithLine(doc.pdf) : p <= q].lines)

(***************************************************************************)
(* The environment shared by the batch scripts.                            *)
(***************************************************************************)
\* every order in which a directory traversal may return the files of S
Orders(S) ==
    {f \in [1..Cardinality(S) -> S] : \A i, j \in 1..Cardinality(S) : i # j => f[i] # f[j]}

\* Python's None, as returned by parse_pdf and summarize_text
PyNone == "None"

\* Python's truth test of a str-or-None value ("if not x")
Falsy(x) == x = PyNone \/ x = ""

\* What requests.post meets.  transport: "ok", or the exception it raises.
\* status: the HTTP status.  body: the shape of the response body.
Transports == {"ok", "Timeout", "ConnectionError"}

Statuses == {200, 500}

Bodies == {"not_json", "no_choices", "empty_choices", "no_message", "no_content",
           "content_empty", "content_text"}

ApiReplies ==
    {[transport |-> t, status |-> 0, body |-> "none"] : t \in Transports \ {"ok"}}
        \cup {[transport |-> "ok", status |-> st, body |-> b] : st \in Statuses, b \in Bodies}

\* response.json()["choices"][0]["message"]["content"] (PDF_batch_read.py 68,
\* MD_summarize.py 103-104): the exception it raises, or the value it yields
JsonContent(body) ==
    CASE body = "not_json"      -> [exc |-> "JSONDecodeError", value |-> ""]
      [] body = "no_choices"    -> [exc |-> "KeyError", value |-> ""]
      [] body = "empty_choices" -> [exc |-> "IndexError", value |-> ""]
      [] body = "no_message"    -> [exc |-> "KeyError", value |-> ""]
      [] body = "no_content"    -> [exc |-> "KeyError", value |-> ""]
      [] body = "content_empty" -> [exc |-> "", value |-> ""]
      [] body = "content_text"  -> [exc |-> "", value |-> "reply text"]

(***************************************************************************)
(* The summarizer, PDF_batch_read.py.                                      *)
(***************************************************************************)
\* the PDF files below INPUT_DIR: <<path without extension, extension>>
PdfFiles == {<<"a", "pdf">>, <<"a", "PDF">>, <<"b", "pdf">>}

\* lines 77-78: os.path.splitext(pdf_path)[0] + ".md", named by its base
MdPath(f) == f[1]

MdPaths == {MdPath(f) : f \in PdfFiles}

Absent == [exists |-> FALSE, content |-> <<>>]

\* a summary written by an earlier run
OldSummary == [exists |-> TRUE, content |-> << <<"old">> >>]

\* what parse_pdf (17-39) meets: fitz raises, the PDF holds no text, or text
ParseOutcomes == {"raises", "no_text", "text"}

parse_pdf(outcome) ==
    CASE outcome = "raises"  -> PyNone
      [] outcome = "no_text" -> ""
      [] outcome = "text"    -> "pdf text"

\* summarize_text (42-71): every exception is caught and None returned; the
\* HTTP status is not looked at
summarize_text(reply) ==
    IF reply.transport # "ok" THEN PyNone
    ELSE IF JsonContent(reply.body).exc # "" THEN PyNone
    ELSE JsonContent(reply.body).value

\* What the write of lines 95-103 meets: no error (0), an OSError once
\* 3 - w of the three pieces are on disk (1..3), or open() itself raises (4).
WriteOutcomes == 0..4

WriteOk == 0

OpenRaises == 4

Pieces(f, summary) == << <<"header">>, <<"source", f>>, <<"summary", summary>> >>

\* the file at md_path after the with block of lines 96-99
WriteSummary(old, f, summary, w) ==
    IF w = OpenRaises THEN old
    ELSE [exists |-> TRUE, content |-> SubSeq(Pieces(f, summary), 1, 3 - w)]

\* a summarizer that never finds the output: the check of line 81 left out
OutputNeverExists(disk, path) == FALSE

\* line 81: os.path.exists(md_path)
OutputExists(disk, path) == disk[path].exists

\* process_single_file (74-103): the result, the disk after it, and which
\* calls it made
process_single_file(disk, f, parse, reply, w) ==
    LET path    == MdPath(f)
        text    == parse_pdf(parse)
        summary == summarize_text(reply)
        base    == [file |-> f, existed |-> disk[path].exists, before |-> disk[path],
                    parsed |-> FALSE, apiCalled |-> FALSE, non2xx |-> FALSE,
                    written |-> FALSE, result |-> "skipped"]
    IN  IF OutputExists(disk, path)
        THEN [disk |-> disk, call |-> base]
        ELSE IF Falsy(text)
        THEN [disk |-> disk,
              call |-> [base EXCEPT !.parsed = TRUE, !.result = "failed"]]
        ELSE IF Falsy(summary)
        THEN [disk |-> disk,
              call |-> [base EXCEPT !.parsed = TRUE, !.apiCalled = TRUE,
                                    !.non2xx = (reply.transport = "ok"
                                                /\ reply.status \notin 200..299),
                                    !.result = "failed"]]
        ELSE [disk |-> [disk EXCEPT ![path] = WriteSummary(disk[path], f, summary, w)],
              call |-> [base EXCEPT !.parsed = TRUE, !.apiCalled = TRUE,
                                    !.non2xx = (reply.transport = "ok"
                                                /\ reply.status \notin 200..299),
                                    !.written = TRUE,
                                    !.result = IF w = WriteOk THEN "success" ELSE "failed"]]

\* What one call of process_single_file can meet.  An outcome the call does
\* not get to (the reply when parsing fails, the write when there is no
\* summary) is fixed, not drawn.
UnusedReply == [transport |-> "Timeout", status |-> 0, body |-> "none"]

ReadInputs ==
    {i \in ParseOutcomes \X ApiReplies \X WriteOutcomes :
        /\ Falsy(parse_pdf(i[1])) => (i[2] = UnusedReply /\ i[3] = WriteOk)
        /\ Falsy(summarize_text(i[2])) => i[3] = WriteOk}

NoCall == [file |-> <<"", "">>, existed |-> FALSE, before |-> Absent, parsed |-> FALSE,
           apiCalled |-> FALSE, non2xx |-> FALSE, written |-> FALSE, result |-> "none"]

\* line 124: stats[result] += 1
Count(st, result) == [st EXCEPT ![result] = @ + 1]

ReadStats == [success |-> 0, failed |-> 0, skipped |-> 0]

\* the number of times the operator runs the script
MaxRuns == 2

\* line 12: the key as shipped; nothing in the script reads its value
ShippedReadKey == "your-api-key"

InitRead ==
    /\ script = "read" /\ pc = "start"
    /\ rootExists \in BOOLEAN
    /\ api_key = ShippedReadKey
    /\ pdf_files = <<>> /\ pos = 0 /\ stats = ReadStats /\ runs = 0
    /\ md \in [MdPaths -> {Absent, OldSummary}]
    /\ last = NoCall
    /\ failedEarlier = [f \in PdfFiles |-> 0]
    /\ IdleRen /\ IdleAgg /\ IdlePure

\* batch_process_pdfs, lines 108-118: the scan (os.walk of a directory that
\* does not exist yields nothing) and the fresh counters
ReadScan ==
    /\ script = "read" /\ pc \in {"start", "done"} /\ runs < MaxRuns
    /\ pdf_files' \in Orders(IF rootExists THEN PdfFiles ELSE {})
    /\ stats' = ReadStats
    /\ pos' = 0
    /\ runs' = runs + 1
    /\ pc' = "loop"
    /\ UNCHANGED <<script, configVars, readVars, renVars, aggVars, pureVars>>

\* one iteration of the loop of lines 122-126
ReadFile ==
    /\ script = "read" /\ pc = "loop" /\ pos < Len(pdf_files)
    /\ \E i \in ReadInputs :
         LET f == pdf_files[pos + 1]
             r == process_single_file(md, f, i[1], i[2], i[3])
         IN  /\ md' = r.disk
             /\ last' = r.call
             /\ stats' = Count(stats, r.call.result)
             /\ failedEarlier' =
                  IF r.call.result = "failed"
                  THEN [failedEarlier EXCEPT ![f] = runs] ELSE failedEarlier
    /\ pos' = pos + 1
    /\ UNCHANGED <<script, pc, configVars, pdf_files, runs, renVars, aggVars, pureVars>>

\* lines 128-132: the loop is over and the totals are printed
ReadFinish ==
    /\ script = "read" /\ pc = "loop" /\ pos = Len(pdf_files)
    /\ pc' = "done"
    /\ UNCHANGED <<script, configVars, batchVars, readVars, renVars, aggVars, pureVars>>

NextRead == ReadScan \/ ReadFile \/ ReadFinish

SpecRead == InitRead /\ [][NextRead]_vars

(***************************************************************************)
(* The renamer, PDF_batch_rename.py.  A PDF on disk is <<directory, name>>,*)
(* the name being the file name without its ".pdf".                        *)
(***************************************************************************)
\* str(counter), in decimal
RECURSIVE Decimal(_)
Decimal(k) ==
    IF k < 10 THEN <<DigitChar(k)>>
    ELSE Decimal(k \div 10) \o <<DigitChar(k % 10)>>

\* line 62: os.path.join(dir_path, new_name + ".pdf")
PlainPath(d, new_name) == <<d, new_name>>

\* line 67: os.path.join(dir_path, f"{new_name}_{counter}.pdf")
NumberedPath(d, new_name, counter) == <<d, new_name \o <<"_">> \o Decimal(counter)>>

\* line 65: counter = 1
FirstCounter == 1

\* a search that probes once: "if" where line 66 has "while"
FreePathProbedOnce(disk, d, new_name, new_path, counter) ==
    IF new_path \in disk
    THEN [new_path |-> NumberedPath(d, new_name, counter), counter |-> counter + 1]
    ELSE [new_path |-> new_path, counter |-> counter]

\* the loop of lines 66-68, entered with new_path and counter
RECURSIVE FreePath(_, _, _, _, _)
FreePath(disk, d, new_name, new_path, counter) ==
    IF new_path \in disk
    THEN FreePath(disk, d, new_name, NumberedPath(d, new_name, counter), counter + 1)
    ELSE [new_path |-> new_path, counter |-> counter]

\* rename_pdf_file (59-75): whether it returned True, the path it chose, the
\* final counter and the disk after it.  renameOk: os.rename does not raise.
rename_pdf_file(disk, pdf_path, new_name, renameOk) ==
    LET d    == pdf_path[1]
        free == FreePath(disk, d, new_name, PlainPath(d, new_name), FirstCounter)
    IN  [ok       |-> renameOk,
         new_path |-> free.new_path,
         counter  |-> free.counter,
         disk     |-> IF renameOk
                      THEN (disk \ {pdf_path}) \cup {free.new_path}
                      ELSE disk]

\* a runner that forgets to count the skipped files
BumpUnlessSkipped(st, key) == IF key = "skipped" THEN st ELSE [st EXCEPT ![key] = @ + 1]

\* lines 95, 101, 106, 108: stats[key] += 1
Bump(st, key) == [st EXCEPT ![key] = @ + 1]

RenameStats == [renamed |-> 0, failed |-> 0, skipped |-> 0]

NoRename == [file |-> <<"", <<>>>>, called |-> FALSE, new_name |-> <<>>,
             new_path |-> <<"", <<>>>>, counter |-> 0, before |-> {}, ok |-> FALSE,
             result |-> "none"]

\* the body of the loop of lines 91-111 for one file whose content is pdf
process_one(disk, f, pdf, renameOk) ==
    LET raw   == extract_pdf_title(pdf)
        clean == sanitize_filename(raw)
        r     == rename_pdf_file(disk, f, clean, renameOk)
        base  == [NoRename EXCEPT !.file = f, !.before = disk]
    IN  IF raw = None
        THEN [disk |-> disk, call |-> [base EXCEPT !.result = "skipped"]]
        ELSE IF clean = <<>>
        THEN [disk |-> disk, call |-> [base EXCEPT !.result = "skipped"]]
        ELSE [disk |-> r.disk,
              call |-> [base EXCEPT !.called = TRUE, !.new_name = clean,
                                    !.new_path = r.new_path, !.counter = r.counter,
                                    !.ok = r.ok,
                                    !.result = IF r.ok THEN "renamed" ELSE "failed"]]

\* ---- the documents and directories of the renamer runs
SpanDoc(t) == Readable(<< [lines |-> <<>>, spans |-> <<[text |-> t, size |-> BodyFontSize + 1]>>] >>)

LineDoc(t) == Readable(<< [lines |-> <<Line(t, FALSE)>>, spans |-> <<>>] >>)

BatchDocs ==
    { Unreadable,
      SpanDoc(<<"a">>),             \* the title "a"
      SpanDoc(<<"a", "sp", "1">>),  \* the title "a 1", sanitized to "a_1"
      SpanDoc(<<"sp">>),            \* a title that sanitizes to nothing
      LineDoc(Letters(MinTitleLen)) }  \* a title found among the text lines

\* What one iteration can meet.  os.rename is not reached, and its outcome
\* not drawn, when no title comes out of the document.
RenameInputs ==
    {i \in BatchDocs \X BOOLEAN :
        sanitize_filename(extract_pdf_title(i[1])) = <<>> => i[2]}

\* the PDFs that may lie below the root directory before the first run
CandidateFiles ==
    { <<"root", <<"x">>>>, <<"root", <<"a">>>>, <<"root", <<"a", "_", "1">>>>,
      <<"root", <<"a", "_", "2">>>>, <<"root/sub", <<"a">>>> }

\* the largest number of PDFs below the root directory
MaxFiles == 3

InitRename ==
    /\ script = "rename" /\ pc = "start"
    /\ rootExists \in BOOLEAN
    /\ api_key = Idle
    /\ pdf_files = <<>> /\ pos = 0 /\ stats = RenameStats /\ runs = 0
    /\ dir \in {S \in SUBSET CandidateFiles : Cardinality(S) \in 1..MaxFiles}
    /\ lastRen = NoRename
    /\ IdleRead /\ IdleAgg /\ IdlePure

\* process_folder, lines 80-88: the scan and the fresh counters
RenameScan ==
    /\ script = "rename" /\ pc = "start"
    /\ pdf_files' \in Orders(IF rootExists THEN dir ELSE {})
    /\ stats' = RenameStats
    /\ pos' = 0
    /\ runs' = runs + 1
    /\ pc' = "loop"
    /\ UNCHANGED <<script, configVars, readVars, renVars, aggVars, pureVars>>

\* one iteration of the loop of lines 91-111
RenameFile ==
    /\ script = "rename" /\ pc = "loop" /\ pos < Len(pdf_files)
    /\ \E i \in RenameInputs :
         LET r == process_one(dir, pdf_files[pos + 1], i[1], i[2])
         IN  /\ dir' = r.disk
             /\ lastRen' = r.call
             /\ stats' = Bump(stats, r.call.result)
    /\ pos' = pos + 1
    /\ UNCHANGED <<script, pc, configVars, pdf_files, runs, readVars, aggVars, pureVars>>

\* lines 118-121: the loop is over and the totals are printed
RenameFinish ==
    /\ script = "rename" /\ pc = "loop" /\ pos = Len(pdf_files)
    /\ pc' = "done"
    /\ UNCHANGED <<script, configVars, batchVars, readVars, renVars, aggVars, pureVars>>

NextRename == RenameScan \/ RenameFile \/ RenameFinish

SpecRename == InitRename /\ [][NextRename]_vars

\* either batch runner
InitBatch == InitRead \/ InitRename

NextBatch == NextRead \/ NextRename

SpecBatch == InitBatch /\ [][NextBatch]_vars

(***************************************************************************)
(* The aggregator, MD_summarize.py.  A file name is a sequence of pieces   *)
(* (without its ".md"), so that startswith is a test on its first pieces.  *)
(* requests is taken to be 2.27 or later, where the exception raised by    *)
(* response.json() is a RequestException.                                  *)
(***************************************************************************)
\* line 22: API_KEY as shipped
ShippedKey == "your-api-key"

\* line 212: the value main compares the key with
CheckedKey == "your-api-key-here"

\* line 59: the prefix of an earlier report
ReportPrefix == <<"research_report">>

\* str.startswith
StartsWith(name, prefix) ==
    Len(name) >= Len(prefix) /\ SubSeq(name, 1, Len(prefix)) = prefix

\* a filter that compares the whole name: "==" where line 59 has startswith
IsNamedReport(filename) == filename = ReportPrefix

\* line 59: filename.startswith("research_report")
IsPriorReport(filename) == StartsWith(filename, ReportPrefix)

\* what f.read() returns for a file
ContentOf(filename) == <<"content of">> \o filename

\* read_markdown_files (43-75) over the glob result `found`; the files of
\* `unreadable` raise when opened or read
RECURSIVE read_markdown_files(_, _)
read_markdown_files(found, unreadable) ==
    IF found = <<>> THEN <<>>
    ELSE LET filename == Head(found)
             rest     == read_markdown_files(Tail(found), unreadable)
         IN  IF IsPriorReport(filename) THEN rest
             ELSE IF filename \in unreadable THEN rest
             ELSE <<[filename |-> filename, content |-> ContentOf(filename)]>> \o rest

\* the files read_markdown_files opens
Opened(found) == {found[i] : i \in {j \in 1..Len(found) : ~IsPriorReport(found[j])}}

\* call_llm_api (77-111): the exception that leaves it, or the value returned
call_llm_api(reply) ==
    IF reply.transport # "ok" THEN [raised |-> "", value |-> ""]
    ELSE IF reply.status \in 400..599 THEN [raised |-> "", value |-> ""]
    ELSE IF JsonContent(reply.body).exc \in {"JSONDecodeError", "KeyError"}
    THEN [raised |-> "", value |-> ""]
    ELSE IF JsonContent(reply.body).exc # ""
    THEN [raised |-> JsonContent(reply.body).exc, value |-> ""]
    ELSE [raised |-> "", value |-> JsonContent(reply.body).value]

\* analyze_papers, lines 124-127: the papers as labelled in the prompt
PapersContent(files) ==
    [i \in 1..Len(files) |->
        [ord |-> i, filename |-> files[i].filename, content |-> files[i].content]]

\* main, lines 243-245: the appendix, one entry per file
Appendix(files) ==
    [i \in 1..Len(files) |-> [ord |-> i, filename |-> files[i].filename]]

\* line 218: the name of the report of this run
NewReport == <<"research_report", "_now">>

NoAgg == [errorReported |-> FALSE, opened |-> {}, apiCalls |-> 0, prompt |-> <<>>,
          reply |-> UnusedReply, raised |-> "", report |-> "", appendix |-> <<>>,
          saved |-> FALSE]

\* the .md files that may lie in MARKDOWN_DIRECTORY
CandidateMd ==
    { <<"x">>, <<"y">>, <<"research_report", "_20240101_000000">>,
      <<"research_report">>, <<"my_", "research_report">> }

\* the largest number of .md files in the directory
MaxMdFiles == 3

InitAgg ==
    /\ script = "agg" /\ pc = "start"
    /\ rootExists \in BOOLEAN
    /\ api_key \in {ShippedKey, CheckedKey, "sk-live"}
    /\ mdDir \in {S \in SUBSET CandidateMd : Cardinality(S) <= MaxMdFiles}
    /\ md_files = <<>>
    /\ agg = NoAgg
    /\ IdleBatch /\ IdleRead /\ IdleRen /\ IdlePure

\* main, lines 205-214: the checks of the configuration
AggCheckConfig ==
    /\ script = "agg" /\ pc = "start"
    /\ IF ~rootExists \/ api_key = CheckedKey
       THEN agg' = [agg EXCEPT !.errorReported = TRUE] /\ pc' = "aborted"
       ELSE agg' = agg /\ pc' = "configured"
    /\ UNCHANGED <<script, configVars, batchVars, readVars, renVars, mdDir, md_files, pureVars>>

\* main, lines 230-236: the files are read; without any the run ends
AggRead ==
    /\ script = "agg" /\ pc = "configured"
    /\ \E found \in Orders(mdDir), unreadable \in SUBSET mdDir :
         /\ unreadable \subseteq Opened(found)
         /\ md_files' = read_markdown_files(found, unreadable)
         /\ agg' = [agg EXCEPT !.opened = Opened(found)]
    /\ pc' = IF md_files' = <<>> THEN "no_files" ELSE "read"
    /\ UNCHANGED <<script, configVars, batchVars, readVars, renVars, mdDir, pureVars>>

\* main, line 239: analyze_papers builds the prompt and calls the API once;
\* an exception call_llm_api does not catch ends the run
AggAnalyze ==
    /\ script = "agg" /\ pc = "read"
    /\ \E reply \in ApiReplies :
         LET r == call_llm_api(reply)
         IN  /\ agg' = [agg EXCEPT !.apiCalls = @ + 1, !.reply = reply,
                                   !.prompt = PapersContent(md_files),
                                   !.raised = r.raised, !.report = r.value]
             /\ pc' = IF r.raised # "" THEN "crashed" ELSE "analyzed"
    /\ UNCHANGED <<script, configVars, batchVars, readVars, renVars, mdDir, md_files, pureVars>>

\* main, lines 242-253: the appendix is added to a non-empty report, which
\* save_report (182-195) writes; writeOk: the write does not raise
AggSave ==
    /\ script = "agg" /\ pc = "analyzed"
    /\ \E writeOk \in BOOLEAN :
         IF Falsy(agg.report)
         THEN /\ writeOk
              /\ UNCHANGED <<agg, mdDir>>
         ELSE /\ agg' = [agg EXCEPT !.appendix = Appendix(md_files), !.saved = writeOk]
              /\ mdDir' = IF writeOk THEN mdDir \cup {NewReport} ELSE mdDir
    /\ pc' = "done"
    /\ UNCHANGED <<script, configVars, batchVars, readVars, renVars, md_files, pureVars>>

NextAgg == AggCheckConfig \/ AggRead \/ AggAnalyze \/ AggSave

SpecAgg == InitAgg /\ [][NextAgg]_vars

\* C1: a PDF whose derived .md exists when it is processed is Skipped, with no
\* parse and no API call, and the .md keeps its content; in every run.
C1_ExistingOutputSkipped ==
    (script = "read" /\ last.result # "none" /\ last.existed)
    => /\ last.result = "skipped"
       /\ ~last.parsed /\ ~last.apiCalled /\ ~last.written
       /\ md[MdPath(last.file)] = last.before

\* a second run skips a PDF whose summary the first run wrote
C1_Witness ==
    /\ script = "read" /\ runs = 2
    /\ last.result = "skipped" /\ last.existed
    /\ last.before.content = Pieces(last.file, "reply text")

\* C2: a non-2xx HTTP status makes the file Failed and leaves its .md as it was.
C2_Non2xxFails ==
    (script = "read" /\ last.apiCalled /\ last.non2xx)
    => /\ last.result = "failed"
       /\ md[MdPath(last.file)] = last.before

\* C3: after a Failed outcome no derived .md exists unless it existed before,
\* and a file that failed in an earlier run is not Skipped in a later one.
C3_NoOutputOnFailed ==
    script = "read"
    => /\ last.result = "failed"
            => (md[MdPath(last.file)].exists => last.existed)
       /\ (last.result = "skipped" /\ failedEarlier[last.file] > 0)
            => failedEarlier[last.file] = runs

\* the name T.pdf (k = 0) or T_k.pdf of directory d, spelled out from the claim
ChainPath(d, T, k) == IF k = 0 THEN <<d, T>> ELSE <<d, T \o <<"_">> \o Decimal(k)>>

\* C5: when T.pdf, T_1.pdf, ..., T_k.pdf all exist in the file's directory and
\* the next name of the chain does not, that next name is chosen (T.pdf itself
\* when it is free); the chosen target does not exist when chosen, the search
\* ends within as many probes as there are files, and a rename that
\* succeeds moves the file there and touches no other file.
C5_FirstFreeName ==
    (script = "rename" /\ lastRen.called)
    => LET d == lastRen.file[1]
           T == lastRen.new_name
           k == lastRen.counter - 1
       IN  /\ k \in 0..Cardinality(lastRen.before)
           /\ \A j \in 0..(k - 1) : ChainPath(d, T, j) \in lastRen.before
           /\ ChainPath(d, T, k) \notin lastRen.before
           /\ lastRen.new_path = ChainPath(d, T, k)
           /\ IF lastRen.ok
              THEN /\ dir = (lastRen.before \ {lastRen.file}) \cup {ChainPath(d, T, k)}
                   /\ Cardinality(dir) = Cardinality(lastRen.before)
              ELSE dir = lastRen.before

\* a.pdf, a_1.pdf and a_2.pdf are taken and the file becomes a_3.pdf
C5_Witness ==
    /\ script = "rename" /\ lastRen.called /\ lastRen.ok
    /\ lastRen.counter = 4
    /\ lastRen.new_path \in dir

\* the sum of the counters of a run
Total(st) ==
    st.failed + st.skipped + (IF "success" \in DOMAIN st THEN st.success ELSE st.renamed)

\* the file the latest iteration of the running batch handled
LastFile == IF script = "read" THEN last.file ELSE lastRen.file

\* C10: in both batch runners the files are handled one at a time in scan
\* order, every handled file adds one to exactly one counter, no counter ever
\* decreases during a run, and at the end the counters add up to the number of
\* scanned files.
C10_EveryFileCountedOnce ==
    /\ [](script \in {"read", "rename"}
            => /\ pos = Total(stats)
               /\ pos <= Len(pdf_files)
               /\ pos > 0 => LastFile = pdf_files[pos]
               /\ pc = "done" => Total(stats) = Len(pdf_files))
    /\ [][\/ pc # "loop" /\ pc' = "loop" /\ pos' = 0 /\ Total(stats') = 0
          \/ pos' = pos /\ stats' = stats
          \/ /\ pc = "loop" /\ pos' = pos + 1
             /\ \E key \in DOMAIN stats : stats' = [stats EXCEPT ![key] = @ + 1]]_vars

\* a second summarizer run ends with each of its counters at one
C10_Witness ==
    /\ script = "read" /\ pc = "done" /\ runs = 2
    /\ stats = [success |-> 1, failed |-> 1, skipped |-> 1]

\* the file names a sequence of labelled entries holds
Names(entries) == {entries[i].filename : i \in 1..Len(entries)}

\* C6: no file whose name starts with "research_report" is fed to the API, and
\* the appendix of a written report lists the files of the prompt, once each,
\* numbered 1..n in the same order as the prompt numbers them.
C6_AppendixMatchesPrompt ==
    script = "agg"
    => /\ agg.apiCalls > 0
            => /\ \A n \in Names(agg.prompt) : ~StartsWith(n, <<"research_report">>)
               /\ Names(agg.prompt) \subseteq mdDir
               /\ Len(agg.prompt) > 0
       /\ agg.saved
            => /\ Len(agg.appendix) = Len(agg.prompt)
               /\ Cardinality(Names(agg.appendix)) = Len(agg.appendix)
               /\ \A i \in 1..Len(agg.appendix) :
                    /\ agg.appendix[i].ord = i
                    /\ agg.prompt[i].ord = i
                    /\ agg.appendix[i].filename = agg.prompt[i].filename

\* x.md, y.md and a stale report: the written report lists the two papers
C6_Witness ==
    /\ script = "agg" /\ agg.saved
    /\ <<"research_report", "_20240101_000000">> \in mdDir
    /\ Names(agg.appendix) = {<<"x">>, <<"y">>}
    /\ agg.appendix[1].filename = <<"y">>

\* C7: with a missing root directory or the shipped placeholder key the run
\* reports the error and stops before any file is read, any API call is made
\* or anything is written.
C7_ConfigErrorAborts ==
    (script = "agg" /\ pc # "start" /\ (~rootExists \/ api_key = ShippedKey))
    => /\ agg.errorReported /\ pc = "aborted"
       /\ agg.opened = {} /\ agg.apiCalls = 0 /\ ~agg.saved

\* a transport failure, a non-2xx status or a malformed body
FailedReply(reply) ==
    \/ reply.transport # "ok"
    \/ reply.status \notin 200..299
    \/ reply.body \in {"not_json", "no_choices", "empty_choices", "no_message", "no_content"}

\* C8: on every transport failure and every malformed response the client
\* raises nothing and returns an empty result, and no report is written.
C8_ClientNeverRaises ==
    (script = "agg" /\ agg.apiCalls > 0 /\ FailedReply(agg.reply))
    => /\ agg.raised = "" /\ pc # "crashed"
       /\ agg.report = ""
       /\ ~agg.saved

====
